---- MODULE Spec2Model ----
(***************************************************************************)
(* Model of dfply/transform.py: the four column-transformation verbs       *)
(* mutate, mutate_if, mutate_all and transmute, each run once on a table.  *)
(*                                                                         *)
(* A table is a sequence of columns [name, val] with pairwise distinct     *)
(* names.  Column contents are uninterpreted: a content is a sequence of   *)
(* strings naming where it comes from, <<"col", c>> for the content of     *)
(* column c of the input table, <<"new", k>> for the value given to the    *)
(* assignment named k, and <<f>> \o v for function f applied to content v. *)
(* Two contents are equal only when they were computed the same way.       *)
(***************************************************************************)
EXTENDS Integers, Sequences, FiniteSets, TLC

\* Bounds of the model.
MaxCols == 2      \* columns of the input table
MaxKw == 2        \* keyword assignments of a call
MaxKeep == 2      \* keep_columns entries of a transmute call
MaxFuns == 2      \* functions of a mutate_all call

\* Column names of input tables; "a_f" is also a name mutate_all can derive.
ColNames == {"a", "b", "a_f"}
\* Names of keyword assignments: "a" overwrites a column, "x" and "y" add one.
KwNames == {"a", "x", "y"}

VARIABLES
  T,            \* the input table as it was when the verb was called
  df,           \* the contents of the table object handed to the verb
  verb,         \* the verb that was called, "none" before the call
  pc,           \* "ready", "pred", "apply", "returned" or "raised"
  err,          \* the error that propagated out of the verb, "" if none
  ret,          \* the returned table
  retobj,       \* "input" when the returned object is the one handed in, "new" otherwise
  kwargs,       \* mutate, transmute: the assignments, in the order given
  keep_columns, \* transmute: the entries as given (possibly nested)
  keep_cols,    \* transmute: the resolved names
  functions,    \* mutate_all: the functions
  predicate,    \* mutate_if: outcome of the predicate on each column
  fun,          \* mutate_if: the function, and the columns on which it raises
  cols,         \* mutate_if: the selected column names
  idx,          \* mutate_if: position of the running loop
  applied       \* mutate_if: the columns df[cols].apply(fun) has computed so far

vars == <<T, df, verb, pc, err, ret, retobj, kwargs, keep_columns, keep_cols,
          functions, predicate, fun, cols, idx, applied>>

----------------------------------------------------------------------------
\* Sequences and tables.

Range(s) == {s[i] : i \in DOMAIN s}

\* The sequences over S of length at most n without a repeated element.
InjSeqs(S, n) ==
  UNION {{s \in [1..k -> S] : \A i, j \in 1..k : i # j => s[i] # s[j]} : k \in 0..n}

\* The sequences over S of length at most n.
SeqsUpTo(S, n) == UNION {[1..k -> S] : k \in 0..n}

Names(tbl) == [i \in DOMAIN tbl |-> tbl[i].name]

Pos(tbl, k) == CHOOSE i \in DOMAIN tbl : tbl[i].name = k

\* The content of column k of tbl.
Col(tbl, k) == tbl[Pos(tbl, k)].val

\* The input tables: any distinct names in any order, each with its own content.
Tables ==
  {[i \in DOMAIN s |-> [name |-> s[i], val |-> <<"col", s[i]>>]] : s \in InjSeqs(ColNames, MaxCols)}

\* The keyword assignments of a call: distinct names (they are a dict's keys).
KwArgs ==
  {[i \in DOMAIN s |-> [name |-> s[i], val |-> <<"new", s[i]>>]] : s \in InjSeqs(KwNames, MaxKw)}

----------------------------------------------------------------------------
\* Mutant of SetItem: an existing column is dropped and appended again, so an
\* overwritten column moves to the end.
SetItemMoveLast(tbl, k, v) ==
  Append(SelectSeq(tbl, LAMBDA c : c.name # k), [name |-> k, val |-> v])

\* Mutant of SetItem: an existing name is written at the first position
\* instead of its own.
SetItemFirst(tbl, k, v) ==
  IF k \in Range(Names(tbl))
    THEN [tbl EXCEPT ![1].val = v]
    ELSE Append(tbl, [name |-> k, val |-> v])

\* pandas: tbl[k] = v.  An existing column keeps its position, a new one is appended.
\* A dict's d[k] = v keeps the key's first position in the same way.
SetItem(tbl, k, v) ==
  IF k \in Range(Names(tbl))
    THEN [tbl EXCEPT ![Pos(tbl, k)].val = v]
    ELSE Append(tbl, [name |-> k, val |-> v])

\* pandas DataFrame.assign(**kw) on a copy of tbl: one SetItem per item, in order.
RECURSIVE assign(_, _)
assign(tbl, kw) ==
  IF kw = <<>> THEN tbl
  ELSE assign(SetItem(tbl, Head(kw).name, Head(kw).val), Tail(kw))

----------------------------------------------------------------------------
Init ==
  /\ T \in Tables
  /\ df = T
  /\ verb = "none"
  /\ pc = "ready"
  /\ err = ""
  /\ ret = <<>>
  /\ retobj = "none"
  /\ kwargs = <<>>
  /\ keep_columns = <<>>
  /\ keep_cols = <<>>
  /\ functions = <<>>
  /\ predicate = [c \in ColNames |-> "false"]
  /\ fun = [id |-> "h", raises |-> {}]
  /\ cols = <<>>
  /\ idx = 0
  /\ applied = <<>>

\* mutate(df, **kwargs): return df.assign(**kwargs)
mutate ==
  /\ pc = "ready"
  /\ \E kw \in KwArgs :
       /\ kwargs' = kw
       /\ ret' = assign(df, kw)
  /\ verb' = "mutate"
  /\ retobj' = "new"
  /\ pc' = "returned"
  /\ UNCHANGED <<T, df, err, keep_columns, keep_cols, functions, predicate, fun,
                 cols, idx, applied>>

----------------------------------------------------------------------------
\* mutate_all

\* A function has an identity and a __name__; f1 and f2 are two functions of one name.
Funs == {[id |-> "f1", name |-> "f"], [id |-> "f2", name |-> "f"], [id |-> "g1", name |-> "g"]}

\* f applied to a column content.
Apply(f, v) == <<f.id>> \o v

\* colname + '_' + f.__name__
DerivedName(colname, f) == colname \o "_" \o f.name

\* Mutant of Items: the loops swapped, for f in functions, for colname in df.columns.
ItemsByFunction(tbl, fs) ==
  [j \in 1..(Len(tbl) * Len(fs)) |->
     LET c == tbl[((j - 1) % Len(tbl)) + 1]
         f == fs[((j - 1) \div Len(tbl)) + 1]
     IN [name |-> DerivedName(c.name, f), val |-> Apply(f, c.val)]]

\* The items of the dict comprehension, in the order it produces them:
\* for colname in df.columns, for f in functions.
Items(tbl, fs) ==
  [j \in 1..(Len(tbl) * Len(fs)) |->
     LET c == tbl[((j - 1) \div Len(fs)) + 1]
         f == fs[((j - 1) % Len(fs)) + 1]
     IN [name |-> DerivedName(c.name, f), val |-> Apply(f, c.val)]]

\* The dict the comprehension builds: a repeated key keeps its first position
\* and takes the last value.
Assignments(tbl, fs) == assign(<<>>, Items(tbl, fs))

\* mutate_all(df, *functions): return df.assign(**assignments)
mutate_all ==
  /\ pc = "ready"
  /\ \E fs \in SeqsUpTo(Funs, MaxFuns) :
       /\ functions' = fs
       /\ ret' = assign(df, Assignments(df, fs))
  /\ verb' = "mutate_all"
  /\ retobj' = "new"
  /\ pc' = "returned"
  /\ UNCHANGED <<T, df, err, kwargs, keep_columns, keep_cols, predicate, fun,
                 cols, idx, applied>>

----------------------------------------------------------------------------
\* transmute

\* A keep_columns entry: a symbolic reference (it has a .name), a string, an
\* integer, a list of entries, or anything else ("other": a float, None, ...).
Entry(kind, name, pos, items) == [kind |-> kind, name |-> name, pos |-> pos, items |-> items]

\* "q" names no column of any table and no assignment.
Atoms ==
  {Entry("str", n, 0, <<>>) : n \in {"a", "q"}}
    \cup {Entry("sym", n, 0, <<>>) : n \in {"b", "x"}}
    \cup {Entry("int", "", p, <<>>) : p \in {-1, 0, MaxCols}}
    \cup {Entry("other", "", 0, <<>>)}

\* The first k entries given as they are, the rest given inside one list
\* (k = Len(s): no list at all).
Nest(s, k) ==
  IF k = Len(s) THEN s
  ELSE Append(SubSeq(s, 1, k), Entry("list", "", 0, SubSeq(s, k + 1, Len(s))))

KeepArgs == UNION {{Nest(s, k) : k \in {0, 1, Len(s)} \cap (0..Len(s))} : s \in SeqsUpTo(Atoms, MaxKeep)}

\* flatten(keep_columns): the entries of nested lists, left to right, depth first.
RECURSIVE flatten(_)
flatten(s) ==
  IF s = <<>> THEN <<>>
  ELSE (IF Head(s).kind = "list" THEN flatten(Head(s).items) ELSE <<Head(s)>>)
         \o flatten(Tail(s))

\* df.columns[col]: Python indexing, negative positions count from the end.
ValidPos(tbl, p) == -Len(tbl) <= p /\ p < Len(tbl)
ColumnAt(tbl, p) == IF p >= 0 THEN tbl[p + 1].name ELSE tbl[Len(tbl) + p + 1].name

\* Mutant of Resolve: the integer lookup inside the try, so that a position
\* the table does not have is skipped like any other unresolvable entry.
RECURSIVE ResolveSkipInvalid(_, _, _)
ResolveSkipInvalid(entries, tbl, acc) ==
  IF entries = <<>> THEN [err |-> "", keep_cols |-> acc]
  ELSE LET col == Head(entries) IN
    CASE col.kind \in {"sym", "str"} ->
           ResolveSkipInvalid(Tail(entries), tbl, Append(acc, col.name))
      [] col.kind = "int" /\ ValidPos(tbl, col.pos) ->
           ResolveSkipInvalid(Tail(entries), tbl, Append(acc, ColumnAt(tbl, col.pos)))
      [] OTHER -> ResolveSkipInvalid(Tail(entries), tbl, acc)

\* The loop over flatten(keep_columns).  col.name, else a string itself, else
\* an integer through df.columns[col], which is outside the try and raises
\* IndexError for a position the table does not have; anything else is skipped.
RECURSIVE Resolve(_, _, _)
Resolve(entries, tbl, acc) ==
  IF entries = <<>> THEN [err |-> "", keep_cols |-> acc]
  ELSE LET col == Head(entries) IN
    CASE col.kind = "sym" -> Resolve(Tail(entries), tbl, Append(acc, col.name))
      [] col.kind = "str" -> Resolve(Tail(entries), tbl, Append(acc, col.name))
      [] col.kind = "int" ->
           IF ValidPos(tbl, col.pos)
             THEN Resolve(Tail(entries), tbl, Append(acc, ColumnAt(tbl, col.pos)))
             ELSE [err |-> "IndexError", keep_cols |-> acc]
      [] OTHER -> Resolve(Tail(entries), tbl, acc)

\* Mutant of select: no column is filtered out.
select_all(tbl, columns) == tbl

\* Mutant of select: tbl[columns], the columns in the order of the list
\* `columns` (first occurrence of each name the table has).
RECURSIVE select_in_list_order(_, _)
select_in_list_order(tbl, columns) ==
  IF columns = <<>> THEN <<>>
  ELSE LET rest == select_in_list_order(tbl, SelectSeq(Tail(columns), LAMBDA n : n # Head(columns)))
       IN IF Head(columns) \in Range(Names(tbl))
            THEN <<tbl[Pos(tbl, Head(columns))]>> \o rest
            ELSE rest

\* Mutant of SelectError: tbl[columns], which raises KeyError for a name the
\* table does not have.
SelectErrorMissing(tbl, columns) ==
  IF Range(columns) \subseteq Range(Names(tbl)) THEN "" ELSE "KeyError"

\* The error of df.select(lambda x: x in columns, axis=1): none, whatever
\* `columns` holds, since the criterion is only asked about the table's own labels.
SelectError(tbl, columns) == ""

\* pandas DataFrame.select(crit, axis=1): the columns whose name satisfies
\* crit, here lambda x: x in columns, in the table's own order.
RECURSIVE select(_, _)
select(tbl, columns) ==
  IF tbl = <<>> THEN <<>>
  ELSE (IF Head(tbl).name \in Range(columns) THEN <<Head(tbl)>> ELSE <<>>)
         \o select(Tail(tbl), columns)

\* transmute(df, *keep_columns, **kwargs)
transmute ==
  /\ pc = "ready"
  /\ \E keep \in KeepArgs, kw \in KwArgs :
       LET r == Resolve(flatten(keep), df, <<>>)
           columns == Names(kw) \o r.keep_cols
       IN /\ keep_columns' = keep
          /\ kwargs' = kw
          /\ keep_cols' = r.keep_cols
          /\ err' = IF r.err # "" THEN r.err ELSE SelectError(assign(df, kw), columns)
          /\ IF err' = ""
               THEN /\ ret' = select(assign(df, kw), columns)
                    /\ retobj' = "new"
                    /\ pc' = "returned"
               ELSE /\ UNCHANGED <<ret, retobj>>
                    /\ pc' = "raised"
  /\ verb' = "transmute"
  /\ UNCHANGED <<T, df, functions, predicate, fun, cols, idx, applied>>

----------------------------------------------------------------------------
\* mutate_if, one step of its loops at a time

\* What predicate(df[col]) does on each column, and the columns on which
\* fun raises.
Predicates == [ColNames -> {"true", "false", "raise"}]
Functions == {[id |-> "h", raises |-> R] : R \in SUBSET ColNames}

\* The call: cols = list(), and the loop over the columns starts.
mutate_if ==
  /\ pc = "ready"
  /\ \E p \in Predicates, f \in Functions :
       /\ predicate' = p
       /\ fun' = f
  /\ verb' = "mutate_if"
  /\ cols' = <<>>
  /\ idx' = 1
  /\ pc' = "pred"
  /\ UNCHANGED <<T, df, err, ret, retobj, kwargs, keep_columns, keep_cols,
                 functions, applied>>

\* Mutant of Selected: the predicate's answer is ignored.
SelectedAlways(sel, col, outcome) == Append(sel, col)

\* The selected columns after predicate has done `outcome` on column col:
\* appended when it returned true; a raise is caught by the bare except.
Selected(sel, col, outcome) == IF outcome = "true" THEN Append(sel, col) ELSE sel

\* Mutant of mutate_if_test: no try around the predicate, its error propagates.
mutate_if_test_no_try ==
  /\ pc = "pred"
  /\ idx <= Len(df)
  /\ IF predicate[df[idx].name] = "raise"
       THEN /\ pc' = "raised"
            /\ err' = "predicate"
            /\ UNCHANGED <<cols, idx>>
       ELSE /\ cols' = Selected(cols, df[idx].name, predicate[df[idx].name])
            /\ idx' = idx + 1
            /\ UNCHANGED <<pc, err>>
  /\ UNCHANGED <<T, df, verb, ret, retobj, kwargs, keep_columns, keep_cols,
                 functions, predicate, fun, applied>>

\* The loop is over: df[cols].apply(fun) starts on a copy of the selected columns.
mutate_if_selected ==
  /\ pc = "pred"
  /\ idx > Len(df)
  /\ pc' = "apply"
  /\ idx' = 1
  /\ applied' = <<>>
  /\ UNCHANGED <<T, df, verb, err, ret, retobj, kwargs, keep_columns, keep_cols,
                 functions, predicate, fun, cols>>

\* One round of `for col in df`: try predicate(df[col]), except: pass.
mutate_if_test ==
  /\ pc = "pred"
  /\ idx <= Len(df)
  /\ cols' = Selected(cols, df[idx].name, predicate[df[idx].name])
  /\ idx' = idx + 1
  /\ UNCHANGED <<T, df, verb, pc, err, ret, retobj, kwargs, keep_columns, keep_cols,
                 functions, predicate, fun, applied>>

\* Mutant of AfterApply: each result is written into the table as soon as it
\* is computed.
AfterApplyInPlace(tbl, col, v) == SetItem(tbl, col, v)

\* The table object after fun has been applied to one more column: apply
\* collects its results aside, the object is not touched.
AfterApply(tbl, col, v) == tbl

\* df[cols].apply(fun) applies fun to the next selected column; an error of
\* fun propagates out of mutate_if.
mutate_if_apply ==
  /\ pc = "apply"
  /\ idx <= Len(cols)
  /\ IF cols[idx] \in fun.raises
       THEN /\ pc' = "raised"
            /\ err' = "fun"
            /\ UNCHANGED <<df, applied, idx>>
       ELSE /\ applied' = Append(applied, [name |-> cols[idx],
                                           val |-> Apply(fun, Col(df, cols[idx]))])
            /\ df' = AfterApply(df, cols[idx], Apply(fun, Col(df, cols[idx])))
            /\ idx' = idx + 1
            /\ UNCHANGED <<pc, err>>
  /\ UNCHANGED <<T, verb, ret, retobj, kwargs, keep_columns, keep_cols,
                 functions, predicate, fun, cols>>

\* df[cols] = <the applied columns>; return df
mutate_if_return ==
  /\ pc = "apply"
  /\ idx > Len(cols)
  /\ df' = assign(df, applied)
  /\ ret' = df'
  /\ retobj' = "input"
  /\ pc' = "returned"
  /\ UNCHANGED <<T, verb, err, kwargs, keep_columns, keep_cols, functions,
                 predicate, fun, cols, idx, applied>>

----------------------------------------------------------------------------
Next ==
  \/ mutate
  \/ mutate_all
  \/ transmute
  \/ mutate_if
  \/ mutate_if_test
  \/ mutate_if_selected
  \/ mutate_if_apply
  \/ mutate_if_return

Spec == Init /\ [][Next]_vars
----------------------------------------------------------------------------
\* The claims.

NameSet(tbl) == Range(Names(tbl))

Returned(v) == verb = v /\ pc = "returned"

\* tbl[names]: the columns of tbl named by the list, in the list's order.
Project(tbl, names) == [i \in DOMAIN names |-> tbl[Pos(tbl, names[i])]]

\* C1: mutate leaves the table it was handed unchanged and returns a new
\* table: T's columns in T's order, a column named in kwargs holding the
\* assigned value in place, followed by the assignments that name no column
\* of T, in the order they were given.
C1_MutateResult ==
  Returned("mutate") =>
    /\ df = T
    /\ retobj = "new"
    /\ ret = [i \in DOMAIN T |->
                IF T[i].name \in NameSet(kwargs)
                  THEN [name |-> T[i].name, val |-> Col(kwargs, T[i].name)]
                  ELSE T[i]]
             \o SelectSeq(kwargs, LAMBDA a : a.name \notin NameSet(T))

\* C1 witness: a call that first adds a column and then overwrites the first
\* of two columns.
C1_Witness ==
  /\ Returned("mutate")
  /\ Len(T) = 2
  /\ Len(kwargs) = 2
  /\ kwargs[1].name \notin NameSet(T)
  /\ kwargs[2].name = T[1].name

\* C9 as claimed: selecting T's columns from mutate(T, **kw) gives back T,
\* for every kw.
C9_Original == Returned("mutate") => Project(ret, Names(T)) = T

\* C9 amended: selecting T's columns from mutate(T, **kw) gives T's names in
\* T's order, and every column that kw does not name is T's column; the
\* selection is T itself when kw names no column of T.
C9_RoundTrip ==
  Returned("mutate") =>
    LET P == Project(ret, Names(T)) IN
      /\ Names(P) = Names(T)
      /\ \A i \in DOMAIN T : T[i].name \notin NameSet(kwargs) => P[i] = T[i]
      /\ (NameSet(kwargs) \cap NameSet(T) = {} => P = T)

\* C9 witness: an assignment overwrites the second of two columns.
C9_Witness ==
  /\ Returned("mutate")
  /\ Len(T) = 2
  /\ T[2].name \in NameSet(kwargs)
  /\ T[1].name \notin NameSet(kwargs)

\* What C4 expects of mutate_all: T unmodified and in order, then n*m derived
\* columns, those of the first column in function order first.
MutateAllExpected ==
  LET n == Len(T)
      m == Len(functions)
  IN /\ Len(ret) = n + n * m
     /\ SubSeq(ret, 1, n) = T
     /\ \A i \in 1..n : \A j \in 1..m :
          ret[n + (i - 1) * m + j] =
            [name |-> T[i].name \o "_" \o functions[j].name,
             val |-> <<functions[j].id>> \o T[i].val]

\* The derived names '<c>_<f name>' are pairwise distinct and none of them
\* is a column of T.
DerivedNamesFresh ==
  LET D == (DOMAIN T) \X (DOMAIN functions)
      nm(d) == T[d[1]].name \o "_" \o functions[d[2]].name
  IN /\ \A d, e \in D : d # e => nm(d) # nm(e)
     /\ \A d \in D : nm(d) \notin NameSet(T)

\* C4 as claimed: for every table and every sequence of functions.
C4_Original == Returned("mutate_all") => MutateAllExpected

\* C4 amended: when the derived names are pairwise distinct and differ from
\* T's column names, mutate_all returns T's columns unmodified and in order,
\* followed by exactly n*m derived columns '<c>_<f name>' holding f applied to
\* c, outer loop over the columns, inner loop over the functions.
C4_MutateAll == (Returned("mutate_all") /\ DerivedNamesFresh) => MutateAllExpected

\* C4 witness: two columns and two functions of different names.
C4_Witness ==
  /\ Returned("mutate_all")
  /\ DerivedNamesFresh
  /\ Len(T) = 2
  /\ Len(functions) = 2

\* S: the columns of T on which the predicate returns true.
PredTrue == {c \in NameSet(T) : predicate[c] = "true"}

\* C5: mutate_if returns the same column names in the same order; a column on
\* which the predicate is true holds fun applied to it, every other column is
\* as in T; with no such column the output equals the input.
C5_MutateIfFrame ==
  Returned("mutate_if") =>
    /\ Names(ret) = Names(T)
    /\ \A i \in DOMAIN T :
         ret[i].val = IF T[i].name \in PredTrue THEN <<fun.id>> \o T[i].val ELSE T[i].val
    /\ (PredTrue = {} => ret = T)

\* C5 witness: one of two columns is selected and transformed.
C5_Witness ==
  /\ Returned("mutate_if")
  /\ Len(T) = 2
  /\ Cardinality(PredTrue) = 1

\* C6: an error of the predicate never leaves mutate_if; the column is not
\* selected, the columns after it are still tested in table order, and the
\* column is returned as it was.
C6_PredicateErrorSkipped ==
  verb = "mutate_if" =>
    /\ err # "predicate"
    /\ (pc = "raised" => err = "fun")
    /\ (pc = "pred" =>
          cols = SelectSeq(Names(SubSeq(T, 1, idx - 1)), LAMBDA c : predicate[c] = "true"))
    /\ (pc # "pred" => cols = SelectSeq(Names(T), LAMBDA c : predicate[c] = "true"))
    /\ (pc = "returned" =>
          \A i \in DOMAIN T : predicate[T[i].name] = "raise" => ret[i] = T[i])

\* C6 witness: the predicate raises on the first column and selects the second.
C6_Witness ==
  /\ Returned("mutate_if")
  /\ Len(T) = 2
  /\ predicate[T[1].name] = "raise"
  /\ predicate[T[2].name] = "true"
  /\ ret[2] # T[2]

\* C10: mutate_if returns the object it was handed, and that object keeps
\* every column of T until fun has been applied to all selected columns; after
\* an error of fun it still holds T.
C10_NoPartialWrite ==
  verb = "mutate_if" =>
    /\ (pc = "returned" => retobj = "input" /\ ret = df)
    /\ (pc \in {"pred", "apply", "raised"} => df = T)

\* C10 witness: fun has transformed one selected column and raises on the next.
C10_Witness ==
  /\ verb = "mutate_if"
  /\ pc = "raised"
  /\ err = "fun"
  /\ Len(applied) = 1

\* C2 as claimed: the returned names are the assignment names together with
\* the resolved keep_columns names.
C2_Original ==
  Returned("transmute") =>
    /\ NameSet(ret) = NameSet(kwargs) \cup Range(keep_cols)
    /\ Cardinality(NameSet(ret)) = Len(ret)

\* C2 amended: the returned names are the assignment names together with
\* those resolved keep_columns names that are columns of T, each exactly once;
\* every other column of T is absent.
C2_TransmuteNames ==
  Returned("transmute") =>
    /\ NameSet(ret) = NameSet(kwargs) \cup (Range(keep_cols) \cap NameSet(T))
    /\ Cardinality(NameSet(ret)) = Len(ret)

\* C2 witness: a name is both assigned and kept, and a column of T is dropped.
C2_Witness ==
  /\ Returned("transmute")
  /\ NameSet(kwargs) \cap Range(keep_cols) # {}
  /\ NameSet(T) \ NameSet(ret) # {}

\* The first occurrence of each element of s, in order.
RECURSIVE FirstOccurrences(_)
FirstOccurrences(s) ==
  IF s = <<>> THEN <<>>
  ELSE <<Head(s)>> \o FirstOccurrences(SelectSeq(Tail(s), LAMBDA n : n # Head(s)))

AbsentKept == Range(keep_cols) \ (NameSet(T) \cup NameSet(kwargs))

\* transmute has ended, its resolution loop raised nothing, and it resolved a
\* name that is absent from the table.
KeptAbsentName ==
  /\ verb = "transmute"
  /\ err # "IndexError"
  /\ AbsentKept # {}

\* C7 as claimed: such a call fails with a lookup error at the selection.
C7_Original == KeptAbsentName => pc = "raised" /\ err = "KeyError"

\* C7 amended: a keep_columns entry that resolves to a name absent from the
\* table (and not assigned) raises nothing at the selection: the call returns
\* a table, and the name is not one of its columns.
C7_AbsentNameIgnored ==
  KeptAbsentName =>
    /\ pc = "returned"
    /\ err = ""
    /\ AbsentKept \cap NameSet(ret) = {}

\* C7 witness: 'q' is kept beside a column of T, and a table comes back.
C7_Witness ==
  /\ KeptAbsentName
  /\ pc = "returned"
  /\ Range(keep_cols) \cap NameSet(T) # {}

\* An integer entry that is no position of T.
BadPosition(e) == e.kind = "int" /\ ~ValidPos(T, e.pos)

\* The entries the resolution keeps, and the name of each.
Resolvable(e) == e.kind \in {"sym", "str"} \/ (e.kind = "int" /\ ValidPos(T, e.pos))
ResolvedName(e) ==
  IF e.kind = "int" THEN T[IF e.pos >= 0 THEN e.pos + 1 ELSE Len(T) + e.pos + 1].name
  ELSE e.name

\* C8 as claimed: resolution never raises, and keeps the resolvable entries.
C8_Original ==
  verb = "transmute" =>
    /\ pc = "returned"
    /\ LET r == SelectSeq(flatten(keep_columns), Resolvable)
       IN keep_cols = [i \in DOMAIN r |-> ResolvedName(r[i])]

\* C8 amended: resolution raises exactly when an entry is an integer that is
\* no position of the table, and then IndexError leaves transmute; otherwise
\* an entry with a .name resolves to it, a string to itself, an integer to
\* the column at that position, and any other entry is left out.
C8_Resolution ==
  verb = "transmute" =>
    LET flat == flatten(keep_columns)
        r == SelectSeq(flat, Resolvable)
    IN /\ pc = "raised" <=> \E i \in DOMAIN flat : BadPosition(flat[i])
       /\ pc = "raised" => err = "IndexError"
       /\ pc = "returned" => keep_cols = [i \in DOMAIN r |-> ResolvedName(r[i])]

\* C8 witness: one entry is resolved, the next is an integer out of range.
C8_Witness ==
  /\ verb = "transmute"
  /\ pc = "raised"
  /\ Len(keep_cols) = 1
====
